---- MODULE Spec2Model ----
(***************************************************************************)
(* Model of the DXPreter line interpreter (src/05-dxpreter/dx.py).         *)
(*                                                                         *)
(* A text is a sequence of one-character strings, so that stripping,       *)
(* pattern matching and placeholder replacement act on characters as the   *)
(* Python code does.  The output stream is a sequence of records, one per  *)
(* print call (and one per prompt written by input()).                     *)
(***************************************************************************)
EXTENDS Integers, Sequences, FiniteSets, TLC

VARIABLES
    argv,        \* sys.argv[1:], the positional arguments
    fs_open,     \* what open(file_path) does: "ok", "FileNotFoundError", "OSError"
    file,        \* file.readlines() of the source file (each line keeps its "\n")
    cwd,         \* os.getcwd() at construction
    state,       \* "Idle", "Running", "Terminated", "Crashed" (uncaught exception)
    mode,        \* "none", "shell", "file"
    variables,   \* Interpreter.variables
    output,      \* everything written to stdout, in order
    line,        \* the line most recently read (local `line`)
    line_index   \* number of lines consumed so far

vars == <<argv, fs_open, file, cwd, state, mode, variables, output, line, line_index>>

----------------------------------------------------------------------------
(* Characters and texts *)

LowerCase == {"a","b","c","d","e","f","g","h","i","j","k","l","m",
              "n","o","p","q","r","s","t","u","v","w","x","y","z"}
UpperCase == {"A","B","C","D","E","F","G","H","I","J","K","L","M",
              "N","O","P","Q","R","S","T","U","V","W","X","Y","Z"}
Digits == {"0","1","2","3","4","5","6","7","8","9"}

\* [a-zA-Z]
IsLetter(c) == c \in LowerCase \cup UpperCase
\* [a-zA-Z0-9_]
IsIdentChar(c) == c \in LowerCase \cup UpperCase \cup Digits \cup {"_"}
\* \s of the patterns, and the characters str.strip() removes
IsSpace(c) == c \in {" ", "\t", "\n", "\r"}

DQ == "\""
SQ == "'"

KwInt == <<"i","n","t">>
KwStr == <<"s","t","r">>
IntToken == <<"%","i","n","t","%">>
StrToken == <<"%","s","t","r","%">>
LogOpen == <<"l","o","g","(",DQ>>
FLogOpen == <<"l","o","g","[">>
CallOpen == <<"]","(",DQ>>
CallClose == <<DQ,")">>
CommentMark == <<"/","/">>
ExitWord == <<"e","x","i","t">>

\* s[a..b], empty when the range is empty
Slice(s, a, b) == IF a > b THEN <<>> ELSE SubSeq(s, a, b)

StartsWith(s, p) == Len(s) >= Len(p) /\ Slice(s, 1, Len(p)) = p
EndsWith(s, p) == Len(s) >= Len(p) /\ Slice(s, Len(s) - Len(p) + 1, Len(s)) = p

\* str.strip(): drop leading and trailing whitespace
RECURSIVE LStrip(_)
LStrip(s) == IF s # <<>> /\ IsSpace(Head(s)) THEN LStrip(Tail(s)) ELSE s
RECURSIVE RStrip(_)
RStrip(s) == IF s # <<>> /\ IsSpace(s[Len(s)]) THEN RStrip(Slice(s, 1, Len(s) - 1)) ELSE s
Strip(s) == RStrip(LStrip(s))

\* str.strip(ch): drop every leading and every trailing occurrence of ch
RECURSIVE LStripChar(_, _)
LStripChar(s, ch) == IF s # <<>> /\ Head(s) = ch THEN LStripChar(Tail(s), ch) ELSE s
RECURSIVE RStripChar(_, _)
RStripChar(s, ch) ==
    IF s # <<>> /\ s[Len(s)] = ch THEN RStripChar(Slice(s, 1, Len(s) - 1), ch) ELSE s
StripChar(s, ch) == RStripChar(LStripChar(s, ch), ch)

\* str.find(tok): index of the leftmost occurrence of tok in s, 0 when absent
Find(s, tok) ==
    LET hits == {i \in 1..(Len(s) - Len(tok) + 1) : Slice(s, i, i + Len(tok) - 1) = tok}
    IN IF hits = {} THEN 0 ELSE CHOOSE i \in hits : \A j \in hits : i <= j

\* str.replace(old, new): every occurrence, left to right, without rescanning
RECURSIVE ReplaceAll(_, _, _)
ReplaceAll(s, old, new) ==
    LET i == Find(s, old)
    IN IF i = 0 THEN s
       ELSE Slice(s, 1, i - 1) \o new \o ReplaceAll(Slice(s, i + Len(old), Len(s)), old, new)

\* str.replace(old, new, 1): the leftmost occurrence only
ReplaceFirst(s, old, new) ==
    LET i == Find(s, old)
    IN IF i = 0 THEN s
       ELSE Slice(s, 1, i - 1) \o new \o Slice(s, i + Len(old), Len(s))

\* str.split(sep) for a one-character separator
RECURSIVE Split(_, _)
Split(s, sep) ==
    LET i == Find(s, <<sep>>)
    IN IF i = 0 THEN <<s>>
       ELSE <<Slice(s, 1, i - 1)>> \o Split(Slice(s, i + 1, Len(s)), sep)

\* IsIdentifier, but accepting a single letter
IsIdentifierLoose(s) ==
    /\ Len(s) >= 1
    /\ IsLetter(s[1])
    /\ \A i \in 2..Len(s) : IsIdentChar(s[i])

\* [a-zA-Z][a-zA-Z0-9_]+ over the whole of s
IsIdentifier(s) ==
    /\ Len(s) >= 2
    /\ IsLetter(s[1])
    /\ \A i \in 2..Len(s) : IsIdentChar(s[i])

\* . of the patterns: any character but a newline
NoNewline(s) == \A i \in 1..Len(s) : s[i] # "\n"

----------------------------------------------------------------------------
(* Interpreter *)

\* Exception messages, as sequences of text pieces
ErrInvalidSyntax == <<"Invalid or unsupported syntax">>
ErrUnsupportedType == <<"unsupported data type">>
ErrNotDefined(var_name) == <<"Variable ">> \o var_name \o <<" is not defined">>
ErrNotADataType(tok) == tok \o <<" is not a valid DataTypes">>
ErrVarType(var_name) == <<"variable ">> \o var_name \o <<" has an unsupported data type">>

\* enum DataTypes: lookup by value, ValueError for any other token
DataTypes(tok) ==
    IF tok = KwInt THEN "Int" ELSE IF tok = KwStr THEN "Str" ELSE "ValueError"

NoMatch == [matched |-> FALSE, dtype |-> <<>>, name |-> <<>>, value |-> <<>>,
            raw_var_names |-> <<>>, message |-> <<>>]

\* last index e >= from - 1 such that s[from..e] are identifier characters
IdentEnd(s, from) ==
    CHOOSE e \in (from - 1)..Len(s) :
        /\ \A i \in from..e : IsIdentChar(s[i])
        /\ (e < Len(s) => ~IsIdentChar(s[e + 1]))

\* ^(int|str)\s([a-zA-Z][a-zA-Z0-9_]+)\s=\s(.+)$
MatchVariable(ln) ==
    LET from == Len(KwInt) + 2
        e == IdentEnd(ln, from)
    IN IF /\ (StartsWith(ln, KwInt) \/ StartsWith(ln, KwStr))
          /\ Len(ln) >= from
          /\ Len(ln) >= e + 4
          /\ IsSpace(ln[from - 1])
          /\ IsIdentifier(Slice(ln, from, e))
          /\ IsSpace(ln[e + 1])
          /\ ln[e + 2] = "="
          /\ IsSpace(ln[e + 3])
          /\ NoNewline(Slice(ln, e + 4, Len(ln)))
       THEN [NoMatch EXCEPT !.matched = TRUE,
                            !.dtype = Slice(ln, 1, Len(KwInt)),
                            !.name = Slice(ln, from, e),
                            !.value = Slice(ln, e + 4, Len(ln))]
       ELSE NoMatch

\* ^log\("(.*?)"\)$
MatchStdLog(ln) ==
    IF /\ StartsWith(ln, LogOpen)
       /\ EndsWith(ln, CallClose)
       /\ Len(ln) >= Len(LogOpen) + Len(CallClose)
       /\ NoNewline(ln)
    THEN [NoMatch EXCEPT !.matched = TRUE,
                         !.message = Slice(ln, Len(LogOpen) + 1, Len(ln) - Len(CallClose))]
    ELSE NoMatch

\* ident(?:\s*,\s*ident)* over the whole of raw
IsIdentList(raw) ==
    LET pieces == Split(raw, ",")
    IN /\ \A i \in 1..Len(pieces) : IsIdentifier(Strip(pieces[i]))
       /\ LStrip(pieces[1]) = pieces[1]
       /\ RStrip(pieces[Len(pieces)]) = pieces[Len(pieces)]

\* ^log\[(ident(?:\s*,\s*ident)*)\]\("(.*?)"\)$
MatchStdLogFormatter(ln) ==
    LET close == Find(ln, <<"]">>)
        rest == Slice(ln, close, Len(ln))
    IN IF /\ StartsWith(ln, FLogOpen)
          /\ close > 0
          /\ IsIdentList(Slice(ln, Len(FLogOpen) + 1, close - 1))
          /\ StartsWith(rest, CallOpen)
          /\ EndsWith(rest, CallClose)
          /\ Len(rest) >= Len(CallOpen) + Len(CallClose)
          /\ NoNewline(rest)
       THEN [NoMatch EXCEPT !.matched = TRUE,
                            !.raw_var_names = Slice(ln, Len(FLogOpen) + 1, close - 1),
                            !.message = Slice(rest, Len(CallOpen) + 1,
                                              Len(rest) - Len(CallClose))]
       ELSE NoMatch

\* list(map(lambda txt: txt.strip(), raw_var_names.split(",")))
VarNames(raw_var_names) ==
    LET pieces == Split(raw_var_names, ",")
    IN [i \in 1..Len(pieces) |-> Strip(pieces[i])]

\* StoredValue, but without the stripping of quotes
StoredValueRaw(data_type, value) == value

\* The text a declaration stores: value for int, value.strip('"').strip("'") for str
StoredValue(data_type, value) ==
    IF data_type = "Str" THEN StripChar(StripChar(value, DQ), SQ) ELSE value

\* One entry of the output stream
Entry(tag, n, text) == [tag |-> tag, n |-> n, text |-> text]
Printed(text) == Entry("print", 0, text)

\* What parse_and_execute hands back: the variables, what it printed, and
\* whether it raised (with the exception's message)
Done(vs, printed) == [variables |-> vs, printed |-> printed, raised |-> FALSE, error |-> <<>>]
Raise(vs, printed, error) ==
    [variables |-> vs, printed |-> printed, raised |-> TRUE, error |-> error]

\* The placeholder a variable of a kind fills
Token(data_type) == IF data_type = "Int" THEN IntToken ELSE StrToken

\* FormatLoop, but printing the working message when a name is not defined
RECURSIVE FormatLoopPartial(_, _, _)
FormatLoopPartial(vs, var_names, message) ==
    IF var_names = <<>> THEN Done(vs, <<Printed(message)>>)
    ELSE LET var_name == Head(var_names)
         IN IF var_name \notin DOMAIN vs
            THEN Raise(vs, <<Printed(message)>>, ErrNotDefined(var_name))
            ELSE FormatLoopPartial(vs, Tail(var_names),
                                   ReplaceFirst(message, Token(vs[var_name].data_type),
                                                vs[var_name].value))

\* FormatLoop, but passing over a name that is not defined
RECURSIVE FormatLoopSkip(_, _, _)
FormatLoopSkip(vs, var_names, message) ==
    IF var_names = <<>> THEN Done(vs, <<Printed(message)>>)
    ELSE LET var_name == Head(var_names)
         IN IF var_name \notin DOMAIN vs
            THEN FormatLoopSkip(vs, Tail(var_names), message)
            ELSE FormatLoopSkip(vs, Tail(var_names),
                                ReplaceFirst(message, Token(vs[var_name].data_type),
                                             vs[var_name].value))

\* FormatLoop, but faulting when the working message has no placeholder left
RECURSIVE FormatLoopStrict(_, _, _)
FormatLoopStrict(vs, var_names, message) ==
    IF var_names = <<>> THEN Done(vs, <<Printed(message)>>)
    ELSE LET var_name == Head(var_names)
         IN IF var_name \notin DOMAIN vs
            THEN Raise(vs, <<>>, ErrNotDefined(var_name))
            ELSE IF Find(message, Token(vs[var_name].data_type)) = 0
                 THEN Raise(vs, <<>>, <<"no placeholder left">>)
                 ELSE FormatLoopStrict(vs, Tail(var_names),
                                       ReplaceFirst(message, Token(vs[var_name].data_type),
                                                    vs[var_name].value))

\* The for loop over var_names: the working message, or the fault of the
\* first name that is not defined
RECURSIVE FormatLoop(_, _, _)
FormatLoop(vs, var_names, message) ==
    IF var_names = <<>> THEN Done(vs, <<Printed(message)>>)
    ELSE LET var_name == Head(var_names)
         IN IF var_name \notin DOMAIN vs
            THEN Raise(vs, <<>>, ErrNotDefined(var_name))
            ELSE IF vs[var_name].data_type \in {"Int", "Str"}
                 THEN FormatLoop(vs, Tail(var_names),
                                 ReplaceFirst(message, Token(vs[var_name].data_type),
                                              vs[var_name].value))
                 ELSE Raise(vs, <<>>, ErrVarType(var_name))

\* Bind, but leaving a name that is already bound as it is
BindKeepFirst(vs, name, data_type, value) ==
    [n \in DOMAIN vs \cup {name} |->
        IF n \in DOMAIN vs THEN vs[n] ELSE [data_type |-> data_type, value |-> value]]

\* Bind, but forgetting every other name
BindAlone(vs, name, data_type, value) ==
    [n \in {name} |-> [data_type |-> data_type, value |-> value]]

\* self.variables[name] = (data_type, value)
Bind(vs, name, data_type, value) ==
    [n \in DOMAIN vs \cup {name} |->
        IF n = name THEN [data_type |-> data_type, value |-> value] ELSE vs[n]]

Declare(vs, m) ==
    LET data_type == DataTypes(m.dtype)
    IN IF data_type = "ValueError" THEN Raise(vs, <<>>, ErrNotADataType(m.dtype))
       ELSE IF data_type \in {"Int", "Str"}
            THEN Done(Bind(vs, m.name, data_type, StoredValue(data_type, m.value)), <<>>)
            ELSE Raise(vs, <<>>, ErrUnsupportedType)

\* ParseAndExecute, but with a plain log formatted with pwd
ParseAndExecuteLogFormats(vs, raw_line) ==
    LET ln == Strip(raw_line)
        decl == MatchVariable(ln)
        log == MatchStdLog(ln)
        flog == MatchStdLogFormatter(ln)
    IN IF ln = <<>> THEN Done(vs, <<>>)
       ELSE IF StartsWith(ln, CommentMark) THEN Done(vs, <<>>)
       ELSE IF decl.matched THEN Declare(vs, decl)
       ELSE IF log.matched THEN FormatLoop(vs, <<<<"p", "w", "d">>>>, log.message)
       ELSE IF flog.matched
            THEN FormatLoop(vs, VarNames(flog.raw_var_names), flog.message)
       ELSE Raise(vs, <<>>, ErrInvalidSyntax)

ParseAndExecute(vs, raw_line) ==
    LET ln == Strip(raw_line)
        decl == MatchVariable(ln)
        log == MatchStdLog(ln)
        flog == MatchStdLogFormatter(ln)
    IN IF ln = <<>> THEN Done(vs, <<>>)
       ELSE IF StartsWith(ln, CommentMark) THEN Done(vs, <<>>)
       ELSE IF decl.matched THEN Declare(vs, decl)
       ELSE IF log.matched THEN Done(vs, <<Printed(log.message)>>)
       ELSE IF flog.matched
            THEN FormatLoop(vs, VarNames(flog.raw_var_names), flog.message)
       ELSE Raise(vs, <<>>, ErrInvalidSyntax)

\* Interpreter.__init__
SeedVariables(dir) == [n \in {<<"p","w","d">>} |-> [data_type |-> "Str", value |-> dir]]

----------------------------------------------------------------------------
(* Inputs *)

MaxShellLines == 3   \* lines typed in an interactive session
MaxFileLen == 3      \* physical lines of a source file

SP == <<" ">>
NL == <<"\n">>
NameAb == <<"a","b">>
NameCd == <<"c","d">>
NameZz == <<"z","z">>

\* <tok> <name> = <value>
DeclLine(tok, name, value) == tok \o SP \o name \o SP \o <<"=">> \o SP \o value
\* log("<text>")
LogLine(text) == LogOpen \o text \o CallClose
\* name1, name2, ...
RECURSIVE JoinNames(_)
JoinNames(names) ==
    IF Len(names) = 1 THEN names[1]
    ELSE names[1] \o <<",", " ">> \o JoinNames(Tail(names))
\* log[<names>]("<template>")
FLogLine(names, template) == FLogOpen \o JoinNames(names) \o CallOpen \o template \o CallClose

\* The lines a session of the driver is fed
DriverLines ==
    { DeclLine(KwInt, NameAb, <<"7">>),
      DeclLine(KwStr, NameAb, <<DQ, "h", "i", DQ>>),
      DeclLine(KwStr, NameCd, IntToken),
      DeclLine(<<"f","l","o","a","t">>, NameAb, <<"1">>),
      LogLine(<<"x">>),
      FLogLine(<<NameAb>>, IntToken \o <<"|">> \o StrToken),
      FLogLine(<<NameCd, NameAb>>, StrToken \o SP \o IntToken),
      FLogLine(<<NameAb, NameZz>>, IntToken \o StrToken),
      FLogLine(<<<<"p", "w", "d">>>>, StrToken),
      <<" ">>,
      <<"/", "/", "c">> }

\* All sequences over S of length at most n
RECURSIVE SeqsUpTo(_, _)
SeqsUpTo(S, n) ==
    IF n = 0 THEN {<<>>}
    ELSE LET shorter == SeqsUpTo(S, n - 1)
         IN shorter \cup {Append(q, x) : q \in {r \in shorter : Len(r) = n - 1}, x \in S}

\* Source files: every line as readlines() returns it, with its line break
Files == {[i \in 1..Len(f) |-> f[i] \o NL] : f \in SeqsUpTo(DriverLines, MaxFileLen)}

MaxRawLen == 3       \* characters of a generated raw literal
MaxTplSegs == 3      \* segments of a generated template

\* The concatenation of a sequence of texts
RECURSIVE Concat(_)
Concat(q) == IF q = <<>> THEN <<>> ELSE Head(q) \o Concat(Tail(q))

\* Raw literals: quotes, a letter and a blank in every arrangement
RawLiterals == SeqsUpTo({DQ, SQ, "a", " "}, MaxRawLen)
QuoteFreeTexts == {r \in RawLiterals : \A i \in 1..Len(r) : r[i] \notin {DQ, SQ}}
Quoted(t) == <<DQ>> \o t \o <<DQ>>

\* Templates: placeholders, a letter and a stray percent sign in every arrangement
Templates == {Concat(q) : q \in SeqsUpTo({IntToken, StrToken, <<"a">>, <<"%">>}, MaxTplSegs)}

\* Values of the declarations that a formatted log then refers to
LogValues == {<<"7">>, <<"a">>, <<"%">>, IntToken, StrToken, Quoted(<<"a">>)}
PairValues == {<<"7">>, IntToken, Quoted(<<>>)}
NameLists == {<<NameAb, NameCd>>, <<NameAb, NameAb>>}

\* One declaration
DeclFiles ==
    {<<DeclLine(tok, NameAb, r) \o NL>> :
        tok \in {KwInt, KwStr}, r \in RawLiterals \cup {Quoted(t) : t \in QuoteFreeTexts}}
\* A declaration and a formatted log of its name
DeclLogFiles ==
    {<<DeclLine(tok, NameAb, v) \o NL, FLogLine(<<NameAb>>, tpl) \o NL>> :
        tok \in {KwInt, KwStr}, v \in LogValues, tpl \in Templates}
\* Two declarations and a formatted log of both names
PairFiles ==
    {<<DeclLine(d[1], NameAb, d[2]) \o NL, DeclLine(d[3], NameCd, d[4]) \o NL,
       FLogLine(names, tpl) \o NL>> :
        d \in {KwInt, KwStr} \X PairValues \X {KwInt, KwStr} \X PairValues,
        names \in NameLists, tpl \in Templates}
\* log("<text>") after an int and a str declaration
LogTexts == Templates \cup RawLiterals \cup {<<"a", DQ, ")", "b">>}
LogFiles ==
    {<<DeclLine(KwInt, NameAb, <<"7">>) \o NL, DeclLine(KwStr, NameCd, Quoted(<<"a">>)) \o NL,
       LogLine(t) \o NL>> : t \in LogTexts}
\* int ab = 7, a declaration of a generated name, a formatted log listing it
MaxNameLen == 2      \* characters of a generated identifier
IdentNames == SeqsUpTo({"a", "1", "_"}, MaxNameLen) \ {<<>>}
IdentFiles ==
    {<<DeclLine(KwInt, NameAb, <<"7">>) \o NL, DeclLine(tok, n, <<"7">>) \o NL,
       FLogLine(names, IntToken) \o NL>> :
        tok \in {KwInt, KwStr}, n \in IdentNames,
        names \in {<<m>> : m \in IdentNames} \cup {<<NameAb, m>> : m \in IdentNames}}
\* The families of generated files
EvalFiles == <<DeclFiles, DeclLogFiles, PairFiles, LogFiles, IdentFiles>>

Cwds == {<<"/", "w">>}
Argvs == {<<>>, <<"">>, <<"prog.dx">>, <<"prog.dx", "more">>}

----------------------------------------------------------------------------
(* Runtime *)

\* Runtime.__init__ assigns file_path only when an argument was given
HasFilePath == Len(argv) >= 1
file_path == argv[1]

Banner == <<Entry("print", 0, <<"DXPreter started.">>),
            Entry("print", 0, <<"Start writing your code! (type 'exit' to exit)">>)>>
Prompt == Entry("prompt", 0, <<">> ">>)
Farewell == Entry("print", 0, <<"\nExiting...">>)
NoSuchFile == Entry("print", 0, <<"There's no such a file to run!">>)
ErrorOccurred(err) == Entry("print", 0, <<"An error occurred! ", err>>)

Init ==
    /\ argv \in Argvs
    /\ cwd \in Cwds
    /\ \/ /\ HasFilePath /\ file_path # ""
          /\ \/ fs_open = "ok" /\ file \in Files
             \/ fs_open \in {"FileNotFoundError", "OSError"} /\ file = <<>>
       \/ /\ ~(HasFilePath /\ file_path # "")
          /\ fs_open = "ok" /\ file = <<>>
    /\ state = "Idle"
    /\ mode = "none"
    /\ variables = SeedVariables(cwd)
    /\ output = <<>>
    /\ line = <<>>
    /\ line_index = 0

\* start() with no argument: self.file_path was never assigned, AttributeError
StartNoArgs ==
    /\ state = "Idle"
    /\ ~HasFilePath
    /\ state' = "Crashed"
    /\ UNCHANGED <<argv, fs_open, file, cwd, mode, variables, output, line, line_index>>

\* start() with a falsy file_path: __run_shell up to the first input(">> ")
StartShell ==
    /\ state = "Idle"
    /\ HasFilePath
    /\ file_path = ""
    /\ mode' = "shell"
    /\ state' = "Running"
    /\ output' = output \o Banner \o <<Prompt>>
    /\ UNCHANGED <<argv, fs_open, file, cwd, variables, line, line_index>>

\* start() with a file_path: __run_file, the file opens and is read
StartFileOpened ==
    /\ state = "Idle"
    /\ HasFilePath
    /\ file_path # ""
    /\ fs_open = "ok"
    /\ mode' = "file"
    /\ state' = "Running"
    /\ UNCHANGED <<argv, fs_open, file, cwd, variables, output, line, line_index>>

\* OpenFailure, but with the one message for every failure
OpenFailureOneMessage(err) == NoSuchFile

\* What __run_file prints when open() raises
OpenFailure(err) == IF err = "FileNotFoundError" THEN NoSuchFile ELSE ErrorOccurred(err)

\* start() with a file_path: __run_file, open() raises
StartFileFailed ==
    /\ state = "Idle"
    /\ HasFilePath
    /\ file_path # ""
    /\ fs_open # "ok"
    /\ mode' = "file"
    /\ state' = "Terminated"
    /\ output' = Append(output, OpenFailure(fs_open))
    /\ UNCHANGED <<argv, fs_open, file, cwd, variables, line, line_index>>

\* ShellReport, but with the fault swallowed
ShellReportSilent(res) == <<>>

\* What the shell prints for a line, after the line's own output
ShellReport(res) ==
    IF res.raised THEN <<Entry("print", 0, <<"Syntax Error: ">> \o res.error)>> ELSE <<>>

\* One pass of the while loop for a line that is not 'exit', up to the next input()
ShellLine(l) ==
    /\ state = "Running"
    /\ mode = "shell"
    /\ line_index < MaxShellLines
    /\ l # ExitWord
    /\ \E res \in {ParseAndExecute(variables, l)} :
          /\ variables' = res.variables
          /\ output' = output \o res.printed \o ShellReport(res) \o <<Farewell, Prompt>>
    /\ line' = l
    /\ line_index' = line_index + 1
    /\ UNCHANGED <<argv, fs_open, file, cwd, state, mode>>

\* The line is 'exit': break, through the finally clause
ShellExit ==
    /\ state = "Running"
    /\ mode = "shell"
    /\ line' = ExitWord
    /\ line_index' = line_index + 1
    /\ output' = Append(output, Farewell)
    /\ state' = "Terminated"
    /\ UNCHANGED <<argv, fs_open, file, cwd, mode, variables>>

\* ShellInterrupt, but leaving without the farewell
ShellInterruptSilent ==
    /\ state = "Running"
    /\ mode = "shell"
    /\ state' = "Terminated"
    /\ UNCHANGED <<argv, fs_open, file, cwd, mode, variables, output, line, line_index>>

\* KeyboardInterrupt while blocked in input(): break, through the finally clause
ShellInterrupt ==
    /\ state = "Running"
    /\ mode = "shell"
    /\ output' = Append(output, Farewell)
    /\ state' = "Terminated"
    /\ UNCHANGED <<argv, fs_open, file, cwd, mode, variables, line, line_index>>

\* End of input: input() raises EOFError, which no handler catches
ShellEOF ==
    /\ state = "Running"
    /\ mode = "shell"
    /\ output' = Append(output, Farewell)
    /\ state' = "Crashed"
    /\ UNCHANGED <<argv, fs_open, file, cwd, mode, variables, line, line_index>>

\* LineNumber, but counting from zero
LineNumberZeroBased(idx) == idx

\* The number a diagnostic of __run_file names for the line at line_index
LineNumber(idx) == idx + 1

\* What __run_file prints for a line, after the line's own output
FileReport(idx, res) ==
    IF res.raised
    THEN <<Entry("print", LineNumber(idx),
                 <<"Syntax Error on line ", ToString(LineNumber(idx)), ": ">> \o res.error)>>
    ELSE <<>>

\* NextIndex, but passing over a line
NextIndexSkip(idx) == idx + 2

\* enumerate(file.readlines()): the position after the line at idx
NextIndex(idx) == idx + 1

\* One pass of the for loop over file.readlines()
RunFileLine ==
    /\ state = "Running"
    /\ mode = "file"
    /\ line_index < Len(file)
    /\ \E res \in {ParseAndExecute(variables, file[line_index + 1])} :
          /\ variables' = res.variables
          /\ output' = output \o res.printed \o FileReport(line_index, res)
    /\ line' = file[line_index + 1]
    /\ line_index' = NextIndex(line_index)
    /\ UNCHANGED <<argv, fs_open, file, cwd, state, mode>>

\* The for loop is exhausted: __run_file returns
RunFileDone ==
    /\ state = "Running"
    /\ mode = "file"
    /\ line_index = Len(file)
    /\ state' = "Terminated"
    /\ UNCHANGED <<argv, fs_open, file, cwd, mode, variables, output, line, line_index>>

Next ==
    \/ StartNoArgs
    \/ StartShell
    \/ StartFileOpened
    \/ StartFileFailed
    \/ \E l \in DriverLines : ShellLine(l)
    \/ ShellExit
    \/ ShellInterrupt
    \/ ShellEOF
    \/ RunFileLine
    \/ RunFileDone

Spec == Init /\ [][Next]_vars

\* Batch runs over the generated declaration and formatted-log files
InitEval ==
    /\ argv = <<"prog.dx">>
    /\ cwd = <<"/">>
    /\ fs_open = "ok"
    /\ \E k \in DOMAIN EvalFiles : file \in EvalFiles[k]
    /\ state = "Idle"
    /\ mode = "none"
    /\ variables = SeedVariables(cwd)
    /\ output = <<>>
    /\ line = <<>>
    /\ line_index = 0

NextEval == StartFileOpened \/ RunFileLine \/ RunFileDone

SpecEval == InitEval /\ [][NextEval]_vars

\* The for statement of __run_file taking the next line: the step of
\* RunFileLine as it shows on the loop counter
NextLine ==
    /\ state = "Running"
    /\ mode = "file"
    /\ line_index < Len(file)
    /\ line_index' = NextIndex(line_index)

\* The driver with its batch loop running to completion: __run_file is a
\* sequential for loop in the only thread, so it is entered, takes the next
\* line while there is one, and returns after the last; the shell waits on
\* its input and is given no such guarantee.
FairSpec ==
    Spec /\ WF_vars(StartFileOpened) /\ WF_line_index(NextLine) /\ WF_vars(RunFileDone)

----------------------------------------------------------------------------
(* Properties of the session driver *)

\* The entries written by the step from output to output'
NewOutput == Slice(output', Len(output) + 1, Len(output'))

\* How many entries of q satisfy equal e
Count(q, e) == Cardinality({i \in 1..Len(q) : q[i] = e})

\* A step that consumes one line and hands it to parse_and_execute
ShellLineStep ==
    mode = "shell" /\ state = "Running" /\ line_index' = line_index + 1 /\ line' # ExitWord
FileLineStep == mode = "file" /\ state = "Running" /\ line_index' = line_index + 1

\* An entry that the driver writes, as opposed to a statement's own output
IsDriverEntry(e) ==
    \/ e \in {Prompt, Farewell}
    \/ e.text # <<>> /\ e.text[1] \in {"Syntax Error: ", "Syntax Error on line "}

\* C1: started with zero arguments the session enters interactive mode and
\* shows the prompt, started with one argument it enters batch mode, and the
\* mode chosen at startup never changes.
C1_ModeSelection ==
    /\ [](state # "Idle" =>
            /\ (Len(argv) = 0 =>
                    mode = "shell" /\ state \in {"Running", "Terminated"}
                    /\ Count(output, Prompt) >= 1)
            /\ (Len(argv) = 1 => mode = "file"))
    /\ [][mode # "none" => mode' = mode]_vars

\* C2: in interactive mode the farewell is printed on the transition out of
\* Running and on no other step: once per session, never after a line that
\* leaves the session Running.
C2_FarewellOnce ==
    mode = "shell" =>
        Count(output, Farewell) = IF state \in {"Terminated", "Crashed"} THEN 1 ELSE 0

\* C3: in interactive mode a line that raises a fault makes the driver print
\* "Syntax Error: <message>" once, the session stays Running with the prompt
\* shown for the next line, and the variables are as before the line.
C3_ShellIsolation ==
    [][ShellLineStep =>
          \A res \in {ParseAndExecute(variables, line')} : res.raised =>
                /\ state' = "Running"
                /\ variables' = variables
                /\ NewOutput # <<>>
                /\ NewOutput[1] = Entry("print", 0, <<"Syntax Error: ">> \o res.error)
                /\ \A i \in 2..Len(NewOutput) : NewOutput[i] \in {Prompt, Farewell}
                /\ NewOutput[Len(NewOutput)] = Prompt]_vars

\* C3 witness: a fault was reported and a later line of the same
\* interactive session printed its output.
C3_Witness ==
    /\ mode = "shell" /\ state = "Running"
    /\ variables = SeedVariables(cwd)
    /\ \E i, j \in 1..Len(output) :
          /\ i < j
          /\ output[i].text[1] = "Syntax Error: "
          /\ output[j] = Printed(<<"x">>)

\* C4: in batch mode a fault on physical line N (1-based, blank and comment
\* lines counted) gives exactly one diagnostic "Syntax Error on line N:
\* <message>", and every line of the file is evaluated whatever faulted before.
C4_BatchIsolation ==
    /\ [][FileLineStep =>
            \A N \in {line_index + 1} : \A res \in {ParseAndExecute(variables, file[N])} :
               /\ line' = file[N]
               /\ state' = "Running"
               /\ variables' = res.variables
               /\ NewOutput = IF res.raised
                              THEN <<Entry("print", N, <<"Syntax Error on line ",
                                           ToString(N), ": ">> \o res.error)>>
                              ELSE res.printed]_vars
    /\ []((mode = "file" /\ fs_open = "ok" /\ state = "Terminated") =>
            /\ line_index = Len(file)
            /\ \A N \in 1..Len(file) : Cardinality({i \in 1..Len(output) : output[i].n = N}) <= 1)

\* C4 witness: a batch run ended in which line 1 was skipped, line 2
\* faulted and line 3 printed.
C4_Witness ==
    /\ mode = "file" /\ state = "Terminated" /\ Len(file) = 3
    /\ Strip(file[1]) = <<>>
    /\ Len(output) = 2
    /\ output[1].n = 2 /\ output[1].text[1] = "Syntax Error on line "
    /\ output[2] = Printed(<<"x">>)

\* C5 as stated: whatever the reason the open fails, the fixed "no such
\* file" message is printed, no line is processed and the session is
\* Terminated.
C5_AnyFailureNoSuchFile ==
    (HasFilePath /\ fs_open # "ok" /\ state # "Idle") =>
        /\ state = "Terminated"
        /\ output = <<NoSuchFile>>
        /\ variables = SeedVariables(cwd)
        /\ line_index = 0

\* C5 amended: when the file does not exist the fixed "no such file" message
\* is printed, for any other failure "An error occurred! <error>"; either
\* way no line is processed, the variables stay as seeded and the session is
\* Terminated.
C5_OpenFailure ==
    (HasFilePath /\ fs_open # "ok" /\ state # "Idle") =>
        /\ state = "Terminated"
        /\ fs_open = "FileNotFoundError" => output = <<NoSuchFile>>
        /\ fs_open # "FileNotFoundError" =>
              output = <<Entry("print", 0, <<"An error occurred! ", fs_open>>)>>
        /\ variables = SeedVariables(cwd)
        /\ line_index = 0

\* C5 witness: a batch run on a file that does not exist has ended.
C5_Witness ==
    mode = "file" /\ fs_open = "FileNotFoundError" /\ state = "Terminated"

\* C6: a line whose evaluation raises a fault leaves the variables as they
\* were and writes no statement output: everything the step writes is the
\* driver's own (diagnostic, farewell, prompt).
C6_FaultAtomicity ==
    [][(ShellLineStep \/ FileLineStep) =>
          \A res \in {ParseAndExecute(variables, line')} : res.raised =>
             /\ variables' = variables
             /\ \A i \in 1..Len(NewOutput) : IsDriverEntry(NewOutput[i])]_vars

\* C6 witness: a formatted log whose first name is defined and whose second
\* is not has been evaluated and reported.
C6_Witness ==
    /\ Strip(line) = FLogLine(<<NameAb, NameZz>>, IntToken \o StrToken)
    /\ NameAb \in DOMAIN variables
    /\ output # <<>>
    /\ \E i \in 1..Len(output) :
          /\ IsDriverEntry(output[i])
          /\ EndsWith(output[i].text, ErrNotDefined(NameZz))

----------------------------------------------------------------------------
(* Properties of the evaluator *)

\* The statement the step reads, as the matchers classify it
DeclOf(l) == MatchVariable(Strip(l))
FLogOf(l) == MatchStdLogFormatter(Strip(l))
IsFLog(l) ==
    LET ln == Strip(l)
    IN /\ StartsWith(ln, FLogOpen)
       /\ ~MatchVariable(ln).matched /\ ~MatchStdLog(ln).matched
       /\ MatchStdLogFormatter(ln).matched

\* The kinds and values of the listed names, in listing order
Listed(vs, names) == [i \in 1..Len(names) |-> vs[names[i]]]

\* q without its first element of the kind
RECURSIVE DropFirstOfKind(_, _)
DropFirstOfKind(q, kind) ==
    IF q = <<>> THEN <<>>
    ELSE IF Head(q).data_type = kind THEN Tail(q)
    ELSE <<Head(q)>> \o DropFirstOfKind(Tail(q), kind)

HasKind(q, kind) == \E i \in 1..Len(q) : q[i].data_type = kind
FirstOfKind(q, kind) ==
    q[CHOOSE i \in 1..Len(q) :
        q[i].data_type = kind /\ \A j \in 1..(i - 1) : q[j].data_type # kind]

\* The template with the k-th variable of each kind in the k-th occurrence
\* of that kind's token, read off the template alone from left to right
RECURSIVE FillInOrder(_, _)
FillInOrder(template, q) ==
    IF template = <<>> THEN <<>>
    ELSE IF StartsWith(template, IntToken) /\ HasKind(q, "Int")
         THEN FirstOfKind(q, "Int").value
              \o FillInOrder(Slice(template, Len(IntToken) + 1, Len(template)),
                             DropFirstOfKind(q, "Int"))
    ELSE IF StartsWith(template, StrToken) /\ HasKind(q, "Str")
         THEN FirstOfKind(q, "Str").value
              \o FillInOrder(Slice(template, Len(StrToken) + 1, Len(template)),
                             DropFirstOfKind(q, "Str"))
    ELSE <<Head(template)>> \o FillInOrder(Tail(template), q)

\* C7: in a formatted log the k-th listed variable of a kind fills the k-th
\* occurrence of that kind's token of the template, and no variable is
\* substituted into text that an earlier substitution produced.
C7_PlaceholderOrder ==
    [][(FileLineStep /\ IsFLog(line')) =>
          \A flog \in {FLogOf(line')} : \A names \in {VarNames(flog.raw_var_names)} :
             (\A i \in 1..Len(names) : names[i] \in DOMAIN variables) =>
                NewOutput = <<Printed(FillInOrder(flog.message, Listed(variables, names)))>>]_vars

\* The declaration of the name that is in force before line N of the file
LastDeclBefore(N, name) ==
    CHOOSE d \in 1..(N - 1) :
        /\ DeclOf(file[d]).matched /\ DeclOf(file[d]).name = name
        /\ \A k \in (d + 1)..(N - 1) :
              ~(DeclOf(file[k]).matched /\ DeclOf(file[k]).name = name)
DeclaredBefore(N, name) ==
    \E d \in 1..(N - 1) : DeclOf(file[d]).matched /\ DeclOf(file[d]).name = name

HasQuote(t) == \E i \in 1..Len(t) : t[i] \in {DQ, SQ}

\* The token occurs in the template => written is the one line that is the
\* template with one occurrence of the token replaced by the value
SubstitutedOnce(template, tok, value, written) ==
    (\E i \in 1..(Len(template) - Len(tok) + 1) : Slice(template, i, i + Len(tok) - 1) = tok)
    => \E i \in 1..(Len(template) - Len(tok) + 1) :
          /\ Slice(template, i, i + Len(tok) - 1) = tok
          /\ written = <<Printed(Slice(template, 1, i - 1) \o value
                                 \o Slice(template, i + Len(tok), Len(template)))>>

StripOneLayer(value) ==
    IF Len(value) >= 2 /\ value[1] \in {DQ, SQ} /\ value[Len(value)] = value[1]
    THEN Slice(value, 2, Len(value) - 1)
    ELSE value

\* C9: a str declaration stores its raw literal with one layer of matching
\* surrounding quotes removed if present and otherwise unchanged.
C9_SingleLayerStrip ==
    [][FileLineStep =>
          \A decl \in {DeclOf(line')} : (decl.matched /\ decl.dtype = KwStr) =>
                /\ decl.name \in DOMAIN variables'
                /\ variables'[decl.name].value = StripOneLayer(decl.value)]_vars

\* The lines str <name> = <t> and str <name> = "<t>"
PlainOrQuoted(name, t) ==
    {DeclLine(KwStr, name, t) \o NL, DeclLine(KwStr, name, Quoted(t)) \o NL}

\* C10 as stated: for every quote-free text t, str n = t and str n = "t"
\* both leave n bound to the value (Str, t).
C10_QuoteFreeSameValue ==
    [][FileLineStep =>
          \A t \in QuoteFreeTexts : line' \in PlainOrQuoted(NameAb, t) =>
              /\ NameAb \in DOMAIN variables'
              /\ variables'[NameAb] = [data_type |-> "Str", value |-> t]]_vars

\* C10 amended: for every quote-free text t that is not empty and does not
\* end in whitespace, str n = t and str n = "t" both leave n bound to the
\* value (Str, t).
C10_QuoteFreeSameValueAmended ==
    [][FileLineStep =>
          \A t \in QuoteFreeTexts :
              (t # <<>> /\ ~IsSpace(t[Len(t)]) /\ line' \in PlainOrQuoted(NameAb, t)) =>
                  /\ NameAb \in DOMAIN variables'
                  /\ variables'[NameAb] = [data_type |-> "Str", value |-> t]]_vars

\* C10 witness: str ab = " a" (quoted, with a leading blank) has been evaluated.
C10_Witness ==
    /\ file = <<DeclLine(KwStr, NameAb, Quoted(<<" ", "a">>)) \o NL>>
    /\ line_index = 1
    /\ variables[NameAb] = [data_type |-> "Str", value |-> <<" ", "a">>]

----------------------------------------------------------------------------
(* Properties of the fault taxonomy *)

\* The faults of the taxonomy, told apart by the exception's message
IsSyntaxFault(error) == error = ErrInvalidSyntax
IsUndefinedVariable(error) ==
    StartsWith(error, <<"Variable ">>) /\ EndsWith(error, <<" is not defined">>)
IsUnsupportedType(error) ==
    \/ error = ErrUnsupportedType
    \/ EndsWith(error, <<" is not a valid DataTypes">>)
    \/ EndsWith(error, <<" has an unsupported data type">>)

\* The first whitespace of ln, 0 when it has none
FirstSpace(ln) ==
    LET hits == {i \in 1..Len(ln) : IsSpace(ln[i])}
    IN IF hits = {} THEN 0 ELSE CHOOSE i \in hits : \A j \in hits : i <= j

\* ln reads <word> <identifier> = <value>: it is a declaration once its
\* first word is replaced by a type token
TypeWord(ln) == Slice(ln, 1, FirstSpace(ln) - 1)
IsDeclShaped(ln) ==
    /\ FirstSpace(ln) > 1
    /\ \A i \in 1..Len(TypeWord(ln)) : IsLetter(TypeWord(ln)[i])
    /\ MatchVariable(KwInt \o Slice(ln, FirstSpace(ln), Len(ln))).matched

\* The message of the diagnostic that the step wrote, <<>> when it wrote none
ReportedError ==
    LET hits == {i \in 1..Len(NewOutput) :
                    NewOutput[i].text # <<>>
                    /\ NewOutput[i].text[1] \in {"Syntax Error: ", "Syntax Error on line "}}
    IN IF hits = {} THEN <<>>
       ELSE LET text == NewOutput[CHOOSE i \in hits : TRUE].text
            IN IF text[1] = "Syntax Error: " THEN Tail(text) ELSE Slice(text, 4, Len(text))

\* C11: a declaration-shaped line whose type token is neither int nor str
\* fails with the fault UnsupportedType and binds nothing.
C11_UnsupportedType ==
    [][(ShellLineStep \/ FileLineStep) =>
          \A ln \in {Strip(line')} :
             (IsDeclShaped(ln) /\ TypeWord(ln) \notin {KwInt, KwStr}) =>
                /\ variables' = variables
                /\ IsUnsupportedType(ReportedError)]_vars

----------------------------------------------------------------------------
(* Properties of the variables *)

Pwd == <<"p", "w", "d">>

\* The names that the lines of the file consumed so far have declared
DeclaredNames == {DeclOf(file[d]).name : d \in {k \in 1..line_index : DeclOf(file[k]).matched}}

\* The binding that a declaration makes
BindingOf(decl) ==
    IF decl.dtype = KwInt THEN [data_type |-> "Int", value |-> decl.value]
    ELSE [data_type |-> "Str", value |-> StoredValue("Str", decl.value)]

RefLine == FLogLine(<<NameAb>>, IntToken \o <<"|">> \o StrToken) \o NL

\* The lines consumed so far, numbered, as the declaration matcher reads them
DeclsSoFar == {<<k, DeclOf(file[k])>> : k \in 1..line_index}
\* The names declared among ds, and the latest declaration of a name
NamesOf(ds) == {p[2].name : p \in {q \in ds : q[2].matched}}
LatestOf(ds, name) ==
    CHOOSE p \in ds :
        /\ p[2].matched /\ p[2].name = name
        /\ \A q \in ds : (q[2].matched /\ q[2].name = name) => q[1] <= p[1]

\* C12: in a batch run every bound name has the kind and the value of the
\* most recent declaration of that name among the lines consumed so far (pwd
\* its seeded value while not redeclared), and a formatted log of a
\* redeclared name prints the value under the placeholder of its new kind.
C12_LastDeclarationWins ==
    /\ []((mode = "file" /\ fs_open = "ok") =>
            \A ds \in {DeclsSoFar} : \A names \in {NamesOf(ds)} :
               /\ DOMAIN variables = names \cup {Pwd}
               /\ \A n \in DOMAIN variables :
                     IF n \in names
                     THEN variables[n] = BindingOf(LatestOf(ds, n)[2])
                     ELSE variables[n] = [data_type |-> "Str", value |-> cwd])
    /\ [][(FileLineStep /\ line' = RefLine /\ NameAb \in DeclaredNames) =>
            \A b \in {BindingOf(DeclOf(file[LastDeclBefore(line_index + 1, NameAb)]))} :
               NewOutput = <<Printed(IF b.data_type = "Int"
                                     THEN b.value \o <<"|">> \o StrToken
                                     ELSE IntToken \o <<"|">> \o b.value)>>]_vars

\* C12 witness: int ab = 7, then str ab = "hi", then log[ab]("%int%|%str%")
\* has printed %int%|hi.
C12_Witness ==
    /\ mode = "file" /\ line_index = 3
    /\ file = <<DeclLine(KwInt, NameAb, <<"7">>) \o NL,
                DeclLine(KwStr, NameAb, Quoted(<<"h", "i">>)) \o NL, RefLine>>
    /\ variables[NameAb] = [data_type |-> "Str", value |-> <<"h", "i">>]
    /\ output = <<Printed(IntToken \o <<"|", "h", "i">>)>>

\* A line that is empty after trimming, or a comment
IsSkipped(l) == Strip(l) = <<>> \/ StartsWith(Strip(l), CommentMark)

\* What the step wrote, the prompt of the next read aside
NewOutputBeforePrompt ==
    IF NewOutput # <<>> /\ NewOutput[Len(NewOutput)] = Prompt
    THEN Slice(NewOutput, 1, Len(NewOutput) - 1)
    ELSE NewOutput

\* C13: in both run modes a comment line or a line that is empty after
\* trimming leaves the variables unchanged, writes nothing and raises no fault.
C13_SkippedLines ==
    [][((ShellLineStep \/ FileLineStep) /\ IsSkipped(line')) =>
          /\ variables' = variables
          /\ state' = "Running"
          /\ NewOutputBeforePrompt = <<>>]_vars

\* C14: the variables start as pwd alone, of kind Str; pwd stays bound and no
\* name is ever unbound; and the variables change only in a step that
\* evaluates a line matched as a declaration.
C14_EnvironmentLifecycle ==
    /\ [](state = "Idle" =>
            DOMAIN variables = {Pwd} /\ variables[Pwd].data_type = "Str"
            /\ variables[Pwd].value = cwd)
    /\ [](Pwd \in DOMAIN variables)
    /\ [][/\ DOMAIN variables \subseteq DOMAIN variables'
          /\ variables' # variables =>
                /\ ShellLineStep \/ FileLineStep
                /\ DeclOf(line').matched
                /\ \A n \in DOMAIN variables \ {DeclOf(line').name} :
                      variables'[n] = variables[n]]_vars

\* C14 witness: after a declaration of ab, a line that is not a declaration
\* has been evaluated and ab and pwd are both bound.
C14_Witness ==
    /\ line_index >= 2
    /\ ~DeclOf(line).matched /\ ~IsSkipped(line)
    /\ DOMAIN variables = {Pwd, NameAb}

\* The least element of a non-empty set of numbers
Least(S) == CHOOSE i \in S : \A j \in S : i <= j

\* C15: in a batch run a formatted log faults with UndefinedVariable, naming
\* the first such name, exactly when it lists a name that is not pwd and
\* that no earlier line of the file has declared; otherwise it prints one line.
C15_NoForwardReferences ==
    [][(FileLineStep /\ IsFLog(line')) =>
          \A names \in {VarNames(FLogOf(line').raw_var_names)} :
          \A missing \in {{i \in 1..Len(names) :
                              names[i] # Pwd /\ names[i] \notin DeclaredNames}} :
             /\ missing # {} =>
                   /\ ReportedError = ErrNotDefined(names[Least(missing)])
                   /\ Len(NewOutput) = 1
                   /\ variables' = variables
             /\ missing = {} =>
                   /\ ReportedError = <<>>
                   /\ Len(NewOutput) = 1]_vars

\* C15 witness: log[ab] on line 1 faulted for ab, and a later line of the
\* same file then declared ab.
C15_Witness ==
    /\ mode = "file" /\ line_index >= 2
    /\ IsFLog(file[1])
    /\ output # <<>>
    /\ output[1].n = 1 /\ EndsWith(output[1].text, ErrNotDefined(NameAb))
    /\ NameAb \in DOMAIN variables

----------------------------------------------------------------------------
(* Properties of the evaluator, continued *)

\* The loop of a formatted log after its first k names
AfterNames(vs, names, template, k) == FormatLoop(vs, Slice(names, 1, k), template)

\* C16: in a formatted log of defined names, a variable whose token does not
\* occur in the working message leaves the working message as it is; no
\* fault is raised and the message is printed once (the template itself
\* when it holds no token of any listed variable's kind).
C16_PlaceholderExhaustion ==
    [][(FileLineStep /\ IsFLog(line')) =>
          \A flog \in {FLogOf(line')} : \A names \in {VarNames(flog.raw_var_names)} :
             (\A i \in 1..Len(names) : names[i] \in DOMAIN variables) =>
                /\ \A k \in 1..Len(names) :
                      \A before \in {AfterNames(variables, names, flog.message, k - 1)} :
                      \A after \in {AfterNames(variables, names, flog.message, k)} :
                         /\ ~before.raised /\ ~after.raised
                         /\ Len(before.printed) = 1 /\ Len(after.printed) = 1
                         /\ Find(before.printed[1].text,
                                 Token(variables[names[k]].data_type)) = 0
                               => after.printed = before.printed
                /\ ReportedError = <<>>
                /\ Len(NewOutput) = 1
                /\ NewOutput = AfterNames(variables, names, flog.message, Len(names)).printed
                /\ (\A i \in 1..Len(names) :
                        Find(flog.message, Token(variables[names[i]].data_type)) = 0)
                      => NewOutput = <<Printed(flog.message)>>]_vars

\* C16 witness: with ab an int, log[ab, ab]("a%int%") has printed a7: the
\* second ab found no %int% left.
C16_Witness ==
    /\ line_index = 3
    /\ file[3] = FLogLine(<<NameAb, NameAb>>, <<"a">> \o IntToken) \o NL
    /\ NameAb \in DOMAIN variables
    /\ variables[NameAb] = [data_type |-> "Int", value |-> <<"7">>]
    /\ output = <<Printed(<<"a", "7">>)>>

----------------------------------------------------------------------------
(* Properties of the batch run *)

\* The set holding the one outcome of the first k lines of the file
\* evaluated in order: the variables, and the outputs with each line's
\* diagnostic after the line's own output
RECURSIVE WalkTo(_)
WalkTo(k) ==
    IF k = 0 THEN {[variables |-> SeedVariables(cwd), output |-> <<>>]}
    ELSE UNION {{[variables |-> res.variables,
                  output |-> prev.output \o res.printed
                             \o (IF res.raised
                                 THEN <<Entry("print", k, <<"Syntax Error on line ",
                                                            ToString(k), ": ">> \o res.error)>>
                                 ELSE <<>>)] :
                    res \in {ParseAndExecute(prev.variables, file[k])}} :
                prev \in WalkTo(k - 1)}

BatchOpened == HasFilePath /\ file_path # "" /\ fs_open = "ok"

\* C17: for a file that opens, each step of the batch run takes the next
\* line of the file, the output stream is at every moment the outputs and
\* diagnostics of the lines taken so far in line order, whatever number of
\* them faulted, the run ends only after the last line, and it does end.
C17_BatchWalkTerminates ==
    /\ []((BatchOpened /\ mode = "file") =>
             /\ line_index <= Len(file)
             /\ \E walk \in WalkTo(line_index) :
                   output = walk.output /\ variables = walk.variables
             /\ state = "Terminated" => line_index = Len(file))
    /\ [][(BatchOpened /\ mode = "file" /\ line_index' # line_index) =>
             /\ line_index' = line_index + 1
             /\ line' = file[line_index']]_vars
    /\ (BatchOpened /\ state = "Idle") ~> (state = "Terminated" /\ line_index = Len(file))

\* C17 witness: a batch run of three lines, the first and the last of them
\* faulting, has terminated with the diagnostics of lines 1 and 3 around the
\* output of line 2.
C17_Witness ==
    /\ BatchOpened /\ mode = "file" /\ state = "Terminated"
    /\ line_index = 3 /\ Len(file) = 3
    /\ Len(output) = 3
    /\ output[1].n = 1 /\ output[1].text[1] = "Syntax Error on line "
    /\ output[2].tag = "print" /\ output[2].text[1] # "Syntax Error on line "
    /\ output[3].n = 3 /\ output[3].text[1] = "Syntax Error on line "

----------------------------------------------------------------------------
(* Properties of the interactive session's end *)

\* The session leaves Running for Terminated without having read a line
InterruptStep ==
    mode = "shell" /\ state = "Running" /\ state' = "Terminated" /\ line_index' = line_index
\* The session leaves Running for Terminated on the line 'exit'
ExitStep ==
    /\ mode = "shell" /\ state = "Running" /\ state' = "Terminated"
    /\ line_index' = line_index + 1 /\ line' = ExitWord

\* C18: an interrupt while the interactive session waits for input ends it
\* at once: the step writes the farewell, which is what the exit keyword
\* writes, and nothing else, evaluates nothing, and the terminated session
\* reads and evaluates no further line.
C18_InterruptTerminates ==
    /\ [][InterruptStep =>
             /\ NewOutput = <<Farewell>>
             /\ variables' = variables
             /\ line' = line]_vars
    /\ [][ExitStep => NewOutput = <<Farewell>>]_vars
    /\ [][(mode = "shell" /\ state = "Running" /\ state' = "Terminated") =>
             (InterruptStep \/ ExitStep)]_vars
    /\ [][state # "Terminated"]_vars

\* C18 witness: an interactive session that evaluated a declaration was
\* interrupted at the next prompt and has terminated on the farewell.
C18_Witness ==
    /\ mode = "shell" /\ state = "Terminated"
    /\ line_index = 1 /\ DeclOf(line).matched
    /\ NameAb \in DOMAIN variables
    /\ Len(output) >= 2
    /\ output[Len(output)] = Farewell
    /\ output[Len(output) - 1] = Prompt

----------------------------------------------------------------------------
(* Properties of the plain log *)

\* C19: log("<text>") writes <text> as one output line exactly as given,
\* tokens %int% and %str% included, whatever variables are bound, writes
\* no diagnostic, and leaves the variables unchanged.
C19_PlainLogVerbatim ==
    [][FileLineStep =>
          \A t \in LogTexts :
             line' = LogLine(t) \o NL =>
                /\ NewOutput = <<Printed(t)>>
                /\ variables' = variables]_vars

\* C19 witness: with an int and a str variable bound, log("%int%%str%") has
\* printed %int%%str%.
C19_Witness ==
    /\ line_index = 3
    /\ file[3] = LogLine(IntToken \o StrToken) \o NL
    /\ variables[NameAb].data_type = "Int"
    /\ variables[NameCd].data_type = "Str"
    /\ output = <<Printed(IntToken \o StrToken)>>

----------------------------------------------------------------------------
(* Properties of the identifier rule *)

\* A letter followed by at least one letter, digit or underscore
WellFormedName(n) ==
    /\ Len(n) >= 2
    /\ n[1] \in LowerCase \cup UpperCase
    /\ \A i \in 2..Len(n) : n[i] \in LowerCase \cup UpperCase \cup Digits \cup {"_"}

\* The lines of the generated files that use the name n
UsesOf(n) ==
    {DeclLine(tok, n, <<"7">>) \o NL : tok \in {KwInt, KwStr}}
       \cup {FLogLine(<<n>>, IntToken) \o NL, FLogLine(<<NameAb, n>>, IntToken) \o NL}

\* C20: every bound name is a letter followed by at least one letter, digit
\* or underscore; a declaration of any other name binds nothing; and a
\* declaration or a formatted log using a one-character identifier is
\* reported as invalid syntax, changes no variable and prints nothing else.
C20_IdentifierRule ==
    /\ [](\A n \in DOMAIN variables : WellFormedName(n))
    /\ [][FileLineStep =>
             \A n \in IdentNames :
                /\ (~WellFormedName(n) /\ \E tok \in {KwInt, KwStr} :
                                             line' = DeclLine(tok, n, <<"7">>) \o NL)
                      => variables' = variables
                /\ (Len(n) = 1 /\ line' \in UsesOf(n))
                      => /\ ReportedError = ErrInvalidSyntax
                         /\ Len(NewOutput) = 1
                         /\ variables' = variables]_vars

\* C20 witness: int a = 7 and log[ab, a]("%int%") on lines 2 and 3 were both
\* reported as invalid syntax, and only pwd and ab are bound.
C20_Witness ==
    /\ line_index = 3
    /\ file[2] = DeclLine(KwInt, <<"a">>, <<"7">>) \o NL
    /\ file[3] = FLogLine(<<NameAb, <<"a">>>>, IntToken) \o NL
    /\ DOMAIN variables = {Pwd, NameAb}
    /\ Len(output) = 2
    /\ output[1].n = 2 /\ EndsWith(output[1].text, ErrInvalidSyntax)
    /\ output[2].n = 3 /\ EndsWith(output[2].text, ErrInvalidSyntax)

====
